---- MODULE Spec2Model ----
(***************************************************************************)
(* Model of src/main.py: a poll loop (check_for_new_tweets) that relays    *)
(* the latest tweet of every watched account to a Telegram channel, and    *)
(* the Telegram command handlers that edit the shared configuration.       *)
(*                                                                         *)
(* Strings the code inspects character by character (account names,       *)
(* tweet text, media URLs, class names, numeric arguments) are sequences   *)
(* of one-character strings.                                               *)
(***************************************************************************)
EXTENDS Integers, Sequences, FiniteSets, TLC

\* ------------------------------------------------------------------ bounds
\* Post ids the source can return are 1..NumPosts.
NumPosts ==
    2
\* Process crashes followed by a restart (SpecCrash only).
MaxCrashes ==
    1

\* ------------------------------------------------------- program constants
\* interval_minutes of the default configuration (line 38).
DefaultInterval ==
    3
\* The floor of the sleep, in seconds (line 159).
SleepFloor ==
    30
\* Seconds per minute (line 159).
SecondsPerMinute ==
    60
\* asyncio.sleep(delay) adds the delay to the loop's float clock; a Python
\* int beyond the float range (about 1.8e308) raises OverflowError there.
\* The model's integers are narrower than Python's, so the float range is
\* scaled down with them: FloatMax stands for sys.float_info.max and
\* HugeArg (below) for a decimal literal of more than 308 digits.
FloatMax ==
    100000

\* ------------------------------------------------------------ characters
Digits ==
    {"0", "1", "2", "3", "4", "5", "6", "7", "8", "9"}

DigitVal(c) ==
    CASE c = "0" -> 0 [] c = "1" -> 1 [] c = "2" -> 2 [] c = "3" -> 3
      [] c = "4" -> 4 [] c = "5" -> 5 [] c = "6" -> 6 [] c = "7" -> 7
      [] c = "8" -> 8 [] c = "9" -> 9

\* str.lower() on the characters the model uses.
LowerChar(c) ==
    CASE c = "V" -> "v" [] c = "P" -> "p" [] c = "G" -> "g"
      [] c = "M" -> "m" [] c = "O" -> "o" [] c = "W" -> "w"
      [] OTHER -> c

Lower(s) ==
    [i \in 1..Len(s) |-> LowerChar(s[i])]

\* s.endswith(suffix)
EndsWith(s, suffix) ==
    /\ Len(s) >= Len(suffix)
    /\ SubSeq(s, Len(s) - Len(suffix) + 1, Len(s)) = suffix

\* s.find(sub) != -1
Contains(s, sub) ==
    \E i \in 1..(Len(s) - Len(sub) + 1) : SubSeq(s, i, i + Len(sub) - 1) = sub

\* s.startswith("@")
StartsWithAt(s) ==
    Len(s) > 0 /\ s[1] = "@"

RECURSIVE LStripAt(_)
\* s.lstrip('@'): every leading "@" is removed.
LStripAt(s) ==
    IF StartsWithAt(s) THEN LStripAt(Tail(s)) ELSE s

RECURSIVE LStripSpace(_)
LStripSpace(s) ==
    IF Len(s) > 0 /\ s[1] = " " THEN LStripSpace(Tail(s)) ELSE s

RECURSIVE RStripSpace(_)
RStripSpace(s) ==
    IF Len(s) > 0 /\ s[Len(s)] = " " THEN RStripSpace(SubSeq(s, 1, Len(s) - 1)) ELSE s

\* str.strip()
Strip(s) ==
    RStripSpace(LStripSpace(s))

Max(a, b) ==
    IF a >= b THEN a ELSE b

\* ------------------------------------------------------------- list helpers
\* x in lst
InList(x, lst) ==
    \E i \in 1..Len(lst) : lst[i] = x

RECURSIVE DedupFrom(_, _)
DedupFrom(lst, seen) ==
    IF lst = <<>> THEN <<>>
    ELSE IF Head(lst) \in seen THEN DedupFrom(Tail(lst), seen)
    ELSE <<Head(lst)>> \o DedupFrom(Tail(lst), seen \cup {Head(lst)})

\* list(dict.fromkeys(lst)): duplicates dropped, first-seen order kept.
Dedup(lst) ==
    DedupFrom(lst, {})

RECURSIVE ListRemove(_, _)
\* lst.remove(x) on a list that holds x: the first occurrence goes.
ListRemove(lst, x) ==
    IF lst = <<>> THEN <<>>
    ELSE IF Head(lst) = x THEN Tail(lst)
    ELSE <<Head(lst)>> \o ListRemove(Tail(lst), x)

\* ------------------------------------------------------------------- data
\* Account names as an administrator can type them.
AccountArgs ==
    {<<"f">>, <<"@", "f">>, <<"g">>, <<"@", "g">>}

\* The account names the handlers store: always with the leading "@".
AccountIds ==
    {<<"@", "f">>, <<"@", "g">>}

\* Values of config["telegram_channel"]: None, or a channel name.
NoChannel ==
    "None"

Channels ==
    {"@chan"}

\* cache.get(acc) of an account without an entry.
NoMarker ==
    "None"

PostIds ==
    1..NumPosts

\* str(tweet.id)
Str(id) ==
    ToString(id)

MarkerVals ==
    {NoMarker} \cup {Str(i) : i \in PostIds}

\* An attribute of a media object: absent (hasattr is false), or a value.
NoField ==
    [has |-> FALSE, val |-> <<>>]

Field(v) ==
    [has |-> TRUE, val |-> v]

\* hasattr(m, name) and m.name
Truthy(f) ==
    f.has /\ f.val # <<>>

ClsPhoto ==
    <<"P", "h", "o", "t", "o">>

ClsVideo ==
    <<"V", "i", "d", "e", "o">>

ClsMedium ==
    <<"M", "e", "d", "i", "u", "m">>

UrlFull ==
    <<"a", ".", "j", "p", "g">>

UrlPreview ==
    <<"b", ".", "j", "p", "g">>

UrlClip ==
    <<"c", ".", "M", "P", "4">>

UrlStream ==
    <<"d">>

\* Media objects as the scraper hands them over.
PhotoBoth ==
    [cls |-> ClsPhoto, fullUrl |-> Field(UrlFull), previewUrl |-> Field(UrlPreview),
     url |-> NoField, type |-> ""]

PhotoPreviewOnly ==
    [cls |-> ClsPhoto, fullUrl |-> Field(<<>>), previewUrl |-> Field(UrlPreview),
     url |-> NoField, type |-> ""]

ClipByExtension ==
    [cls |-> ClsMedium, fullUrl |-> NoField, previewUrl |-> NoField,
     url |-> Field(UrlClip), type |-> ""]

\* snscrape's Video carries thumbnailUrl and variants, none of the three fields.
VideoNoUrl ==
    [cls |-> ClsVideo, fullUrl |-> NoField, previewUrl |-> NoField,
     url |-> NoField, type |-> ""]

VideoTagged ==
    [cls |-> ClsMedium, fullUrl |-> NoField, previewUrl |-> NoField,
     url |-> Field(UrlStream), type |-> "video"]

\* The content and media of the tweets the source returns.
Bodies ==
    { [content |-> <<" ", "h", "i", " ">>, media |-> <<>>],
      [content |-> <<>>, media |-> <<PhotoBoth, ClipByExtension, PhotoPreviewOnly>>],
      [content |-> <<"h", "i">>, media |-> <<VideoNoUrl>>],
      [content |-> <<"h", "i">>, media |-> <<VideoTagged>>] }

Tweets ==
    { [id |-> i, content |-> b.content, media |-> b.media] : i \in PostIds, b \in Bodies }

\* get_latest_tweet_sync returned None (no tweet, or the scrape raised).
NoTweet ==
    [id |-> 0, content |-> <<>>, media |-> <<>>]

\* ------------------------------------------------------------- normalizer
\* Faulty variant of lines 111-118: the unset url is kept as the text "None".
ResolveUrlKeepsNone(m) ==
    IF Truthy(m.fullUrl) THEN m.fullUrl.val
    ELSE IF Truthy(m.previewUrl) THEN m.previewUrl.val
    ELSE IF Truthy(m.url) THEN m.url.val
    ELSE <<"N", "o", "n", "e">>

\* Lines 111-118: fullUrl, then previewUrl, then url; <<>> when none is set.
ResolveUrl(m) ==
    IF Truthy(m.fullUrl) THEN m.fullUrl.val
    ELSE IF Truthy(m.previewUrl) THEN m.previewUrl.val
    ELSE IF Truthy(m.url) THEN m.url.val
    ELSE <<>>

VideoExts ==
    {<<".", "m", "p", "4">>, <<".", "m", "o", "v">>, <<".", "w", "e", "b", "m">>}

\* Lines 112, 120-125: the type of a media object whose URL resolved to u.
MediaType(m, u) ==
    IF \/ Contains(Lower(m.cls), <<"v", "i", "d", "e", "o">>)
       \/ m.type = "video"
       \/ \E ext \in VideoExts : EndsWith(Lower(u), ext)
    THEN "video"
    ELSE "photo"

RECURSIVE ExtractFrom(_)
ExtractFrom(ms) ==
    IF ms = <<>> THEN <<>>
    ELSE LET m == Head(ms)
             u == ResolveUrl(m)
         IN  IF u # <<>>
             THEN <<[type |-> MediaType(m, u), url |-> u]>> \o ExtractFrom(Tail(ms))
             ELSE ExtractFrom(Tail(ms))

\* extract_media_from_tweet
ExtractMedia(tweet) ==
    ExtractFrom(tweet.media)

\* Line 148 (the emoji that opens the header is left out).
Caption(acc, text) ==
    IF text # <<>>
    THEN <<"New tweet from ">> \o acc \o <<":", "\n", "\n">> \o text
    ELSE <<"New tweet from ">> \o acc

\* --------------------------------------------------------------- delivery
\* A call on the bot: op, chat_id, the media URLs and the caption of each
\* item (<<>>: no caption).
BotCall(op, chat, urls, captions) ==
    [op |-> op, chat |-> chat, urls |-> urls, captions |-> captions]

\* Faulty variant of send_text: an unset channel falls back to a channel.
SendTextPlanFallback(channel, text) ==
    <<[op |-> "send_message",
       chat |-> IF channel = NoChannel THEN "@chan" ELSE channel,
       urls |-> <<>>, captions |-> <<text>>]>>

\* send_text: one bot.send_message.
SendTextPlan(channel, text) ==
    <<BotCall("send_message", channel, <<>>, <<text>>)>>

IsPhoto(m) ==
    m.type = "photo"

IsVideo(m) ==
    m.type = "video"

UrlsOf(ms) ==
    [i \in 1..Len(ms) |-> ms[i].url]

\* Faulty variant of send_media: the videos go out before the photos and
\* carry the caption as well.
SendMediaPlanVideosFirst(channel, media, caption) ==
    IF media = <<>>
    THEN IF caption # <<>> THEN SendTextPlan(channel, caption) ELSE <<>>
    ELSE LET photos == UrlsOf(SelectSeq(media, IsPhoto))
             videos == UrlsOf(SelectSeq(media, IsVideo))
             photoCalls ==
                 IF photos = <<>> THEN <<>>
                 ELSE IF Len(photos) = 1
                 THEN <<BotCall("send_photo", channel, photos, <<caption>>)>>
                 ELSE <<BotCall("send_media_group", channel, photos,
                                [i \in 1..Len(photos) |-> caption])>>
             videoCalls ==
                 [i \in 1..Len(videos) |->
                     BotCall("send_video", channel, <<videos[i]>>, <<caption>>)]
         IN  videoCalls \o photoCalls

\* Faulty variant of send_media: the text fallback of line 79 looks at the
\* photos only, so a post without photos gets its caption as a text.
SendMediaPlanTextAfterVideos(channel, media, caption) ==
    IF media = <<>>
    THEN IF caption # <<>> THEN SendTextPlan(channel, caption) ELSE <<>>
    ELSE LET photos == UrlsOf(SelectSeq(media, IsPhoto))
             videos == UrlsOf(SelectSeq(media, IsVideo))
             photoCalls ==
                 IF photos = <<>> THEN <<>>
                 ELSE IF Len(photos) = 1
                 THEN <<BotCall("send_photo", channel, photos, <<caption>>)>>
                 ELSE <<BotCall("send_media_group", channel, photos,
                                [i \in 1..Len(photos) |-> IF i = 1 THEN caption ELSE <<>>])>>
             videoCalls ==
                 [i \in 1..Len(videos) |->
                     BotCall("send_video", channel, <<videos[i]>>, <<>>)]
             fallback ==
                 IF photos = <<>> /\ caption # <<>>
                 THEN SendTextPlan(channel, caption) ELSE <<>>
         IN  photoCalls \o videoCalls \o fallback

\* send_media: the bot calls it makes when none of them raises.
SendMediaPlan(channel, media, caption) ==
    IF media = <<>>
    THEN IF caption # <<>> THEN SendTextPlan(channel, caption) ELSE <<>>
    ELSE LET photos == UrlsOf(SelectSeq(media, IsPhoto))
             videos == UrlsOf(SelectSeq(media, IsVideo))
             photoCalls ==
                 IF photos = <<>> THEN <<>>
                 ELSE IF Len(photos) = 1
                 THEN <<BotCall("send_photo", channel, photos, <<caption>>)>>
                 ELSE <<BotCall("send_media_group", channel, photos,
                                [i \in 1..Len(photos) |-> IF i = 1 THEN caption ELSE <<>>])>>
             videoCalls ==
                 [i \in 1..Len(videos) |->
                     BotCall("send_video", channel, <<videos[i]>>, <<>>)]
             fallback ==
                 IF photos = <<>> /\ videos = <<>> /\ caption # <<>>
                 THEN SendTextPlan(channel, caption) ELSE <<>>
         IN  photoCalls \o videoCalls \o fallback

\* Lines 146-154: what the loop sends for a new tweet of acc.
DeliveryPlan(acc, tweet, channel) ==
    LET text == Strip(tweet.content)
        caption == Caption(acc, text)
        media == ExtractMedia(tweet)
    IN  IF media # <<>>
        THEN SendMediaPlan(channel, media, caption)
        ELSE SendTextPlan(channel, caption)

\* ------------------------------------------------------------------ state
VARIABLES
    config,       \* the config dict (lines 36-41)
    cache,        \* the cache dict: account -> id of its last relayed tweet (line 42)
    cacheFile,    \* cache.json on disk
    pc,           \* where check_for_new_tweets stands
    accounts,     \* its local list of this cycle (line 136)
    idx,          \* position of the for loop in accounts (line 138)
    tweet,        \* the fetched tweet being relayed (line 139)
    delivery,     \* the bot calls made for it (lines 151-154)
    crashes,      \* process crashes so far
    cyclePaused,  \* history: the running cycle found paused set (line 133)
    prevFetch,    \* history: account -> id of the last tweet a fetch returned
    lastAttempt   \* history: account -> id of the last tweet whose send was called

vars ==
    <<config, cache, cacheFile, pc, accounts, idx, tweet, delivery,
      crashes, cyclePaused, prevFetch, lastAttempt>>

\* Names the watch-list can hold, hence keys cache can get.
CacheKeys ==
    AccountIds \cup AccountArgs

EmptyCache ==
    [a \in CacheKeys |-> NoMarker]

\* cache.json: readable JSON holding doc, or a file json.load rejects.
GoodFile(doc) ==
    [ok |-> TRUE, doc |-> doc]

CorruptFile ==
    [ok |-> FALSE, doc |-> EmptyCache]

NoDelivery ==
    [made |-> FALSE, failed |-> FALSE, calls |-> <<>>]

NoStatus ==
    [count |-> 0, interval |-> 0, channel |-> NoChannel, paused |-> FALSE]

\* A reply: its wording (kind) and the values formatted into it.
Reply(kind, acc, n, listed, status) ==
    [kind |-> kind, acc |-> acc, n |-> n, listed |-> listed, status |-> status]

Ack(kind) ==
    Reply(kind, <<>>, 0, <<>>, NoStatus)

AckAcc(kind, acc) ==
    Reply(kind, acc, 0, <<>>, NoStatus)

\* The account the for loop stands at.
CurAcc ==
    accounts[idx]

\* Lines 36-44: the state after the module is loaded on a first run (no
\* config.json, no cache.json); DEFAULT_CHANNEL may be set or not.
Init ==
    /\ config \in { [twitter_accounts |-> <<>>, interval_minutes |-> DefaultInterval,
                     telegram_channel |-> ch, paused |-> FALSE]
                    : ch \in {NoChannel} \cup Channels }
    /\ cache = EmptyCache
    /\ cacheFile = GoodFile(EmptyCache)
    /\ pc = "top"
    /\ accounts = <<>>
    /\ idx = 1
    /\ tweet = NoTweet
    /\ delivery = NoDelivery
    /\ crashes = 0
    /\ cyclePaused = FALSE
    /\ prevFetch = [a \in CacheKeys |-> NoMarker]
    /\ lastAttempt = [a \in CacheKeys |-> NoMarker]

\* ------------------------------------------------------------- poll loop
\* Faulty variant of line 144: the comparison with the marker is lost and
\* every fetched tweet counts as new.
IsNewAlways(last, tid) ==
    TRUE

\* Faulty variant of line 144: an account without a marker never has a new
\* tweet (the first fetch only primes the marker's comparison).
IsNewUnlessFirst(last, tid) ==
    last # NoMarker /\ last # tid

\* Line 144: is the fetched tweet new?
IsNew(last, tid) ==
    last # tid

\* Faulty variant of line 155: the marker advances only when the send went
\* through (a retry-on-failure policy).
MarkerOnlyOnSuccess(old, tid, failed) ==
    IF failed THEN old ELSE tid

\* Faulty variant of line 155: the assignment is lost, the marker stays.
MarkerKept(old, tid, failed) ==
    old

\* Faulty variant of line 155: the account's entry is cleared.
MarkerCleared(old, tid, failed) ==
    NoMarker

\* Line 155: the marker written after the send returned.
MarkerAfterSend(old, tid, failed) ==
    tid

\* Line 159: the seconds the loop sleeps.
SleepSeconds(cfg) ==
    Max(SleepFloor, cfg.interval_minutes * SecondsPerMinute)

\* The except of line 157 caught an exception, or the for loop is over: on
\* to line 159. The locals of the cycle are dead from here on: the next
\* cycle assigns them before it reads them.
ToSleep ==
    /\ pc' = "sleep"
    /\ accounts' = <<>>
    /\ idx' = 1

\* Lines 131-137: the top of a cycle.
CycleStart ==
    /\ pc = "top"
    /\ cyclePaused' = config.paused
    /\ IF config.paused
       THEN ToSleep
       ELSE /\ pc' = "for"
            /\ accounts' = Dedup(config.twitter_accounts)
            /\ idx' = 1
    /\ UNCHANGED <<config, cache, cacheFile, tweet, delivery, crashes,
                   prevFetch, lastAttempt>>

\* Lines 138-139: the for loop takes the next account and hands the fetch to
\* a thread; asyncio.to_thread itself can raise (RuntimeError: can't start
\* new thread), outside get_latest_tweet_sync's own try, and the except of
\* line 157 then ends the cycle.
ForNext ==
    /\ pc = "for"
    /\ IF idx > Len(accounts)
       THEN ToSleep
       ELSE \/ /\ pc' = "fetching"
               /\ UNCHANGED <<accounts, idx>>
            \/ ToSleep
    /\ UNCHANGED <<config, cache, cacheFile, tweet, delivery,
                   crashes, cyclePaused, prevFetch, lastAttempt>>

\* Lines 146-154, for the new tweet t of the account the loop stands at:
\* caption, media, channel, and the send. A bot call that raises ends the
\* send (the except of send_text / send_media returns), so the calls made
\* are a prefix of the plan.
Relay(t) ==
    /\ LET plan == DeliveryPlan(CurAcc, t, config.telegram_channel)
       IN  \E k \in 0..Len(plan) :
              delivery' = [made |-> TRUE, failed |-> k < Len(plan),
                           calls |-> SubSeq(plan, 1, k)]
    /\ tweet' = t
    /\ lastAttempt' = [lastAttempt EXCEPT ![CurAcc] = Str(t.id)]
    /\ pc' = "mark"
    /\ UNCHANGED idx

\* Line 140 and the else of line 144: on to the next account.
Continue ==
    /\ idx' = idx + 1
    /\ pc' = "for"
    /\ UNCHANGED <<tweet, delivery, lastAttempt>>

\* Lines 139-154: the fetch returns None or a tweet; a tweet whose id is the
\* account's marker is skipped, any other is relayed. Nothing suspends
\* between the return of the fetch and line 155.
FetchReturn ==
    /\ pc = "fetching"
    /\ \E t \in Tweets \cup {NoTweet} :
          IF t = NoTweet
          THEN /\ Continue
               /\ UNCHANGED prevFetch
          ELSE /\ prevFetch' = [prevFetch EXCEPT ![CurAcc] = Str(t.id)]
               /\ IF IsNew(cache[CurAcc], Str(t.id)) THEN Relay(t) ELSE Continue
    /\ UNCHANGED <<config, cache, cacheFile, accounts, crashes, cyclePaused>>

\* Lines 155-156: the marker is written, then save_json(CACHE_FILE, cache).
\* json.dump can raise OSError (a full disk) after open(path, 'w') has
\* truncated the file: cache.json is then no JSON, and the except of line
\* 157 ends the cycle.
MarkAndSave ==
    /\ pc = "mark"
    /\ cache' = [cache EXCEPT
                   ![CurAcc] = MarkerAfterSend(cache[CurAcc], Str(tweet.id), delivery.failed)]
    /\ \/ /\ cacheFile' = GoodFile(cache')
          /\ idx' = idx + 1
          /\ pc' = "for"
          /\ UNCHANGED accounts
       \/ /\ cacheFile' = CorruptFile
          /\ ToSleep
    /\ tweet' = NoTweet
    /\ delivery' = NoDelivery
    /\ UNCHANGED <<config, crashes, cyclePaused, prevFetch, lastAttempt>>

\* Line 159, evaluated outside the try: asyncio.sleep raises OverflowError
\* for a delay beyond the float range, and the task ends.
SleepStart ==
    /\ pc = "sleep"
    /\ pc' = IF SleepSeconds(config) > FloatMax THEN "dead" ELSE "sleeping"
    /\ UNCHANGED <<config, cache, cacheFile, accounts, idx, tweet, delivery,
                   crashes, cyclePaused, prevFetch, lastAttempt>>

\* The sleep is over: back to while True.
Wake ==
    /\ pc = "sleeping"
    /\ pc' = "top"
    /\ UNCHANGED <<config, cache, cacheFile, accounts, idx, tweet, delivery,
                   crashes, cyclePaused, prevFetch, lastAttempt>>

\* --------------------------------------------------------------- commands
\* The handlers run on the event loop, which the poll loop leaves only at
\* its awaits that suspend: the fetch (line 139) and the sleep (line 159).
\* After the task has ended the handlers still run.
CmdPoint ==
    pc \in {"fetching", "sleeping", "dead"}

\* context.args of /add and /remove: none, or one account name.
AccountArgLists ==
    {<<>>} \cup {<<a>> : a \in AccountArgs}

\* A decimal literal of more digits than a float can hold (see FloatMax).
HugeArg ==
    <<"9", "9", "9", "9">>

\* context.args of /setinterval.
IntervalArgLists ==
    {<<>>} \cup {<<a>> : a \in {<<"a", "b", "c">>, <<"1", ".", "5">>, <<"0">>,
                                 <<"-", "2">>, HugeArg}}

ChannelArgLists ==
    {<<>>} \cup {<<c>> : c \in Channels}

\* Faulty variant of lines 185-186: the name is stored as typed.
NormalizeAccAsTyped(arg) ==
    arg

\* Lines 185-186 and 199-200: the leading "@" is added when missing.
NormalizeAcc(arg) ==
    IF StartsWithAt(arg) THEN arg ELSE <<"@">> \o arg

\* Faulty variant of line 187: the membership test is lost.
NeverTracked(acc, lst) ==
    FALSE

\* Line 187: acc in config["twitter_accounts"]
AlreadyTracked(acc, lst) ==
    InList(acc, lst)

RECURSIVE DigitsValue(_)
DigitsValue(ds) ==
    IF ds = <<>> THEN 0
    ELSE 10 * DigitsValue(SubSeq(ds, 1, Len(ds) - 1)) + DigitVal(ds[Len(ds)])

AllDigits(ds) ==
    ds # <<>> /\ \A i \in 1..Len(ds) : ds[i] \in Digits

\* Faulty variant of line 230: a parse that yields 0 where int() raises.
ParseIntLenient(s) ==
    LET signed == Len(s) > 0 /\ s[1] \in {"+", "-"}
        ds == IF signed THEN Tail(s) ELSE s
    IN  [ok |-> TRUE,
         val |-> IF ~AllDigits(ds) THEN 0
                 ELSE IF signed /\ s[1] = "-" THEN 0 - DigitsValue(ds)
                 ELSE DigitsValue(ds)]

\* int(s) of line 230: an optional sign, then digits; anything else raises
\* ValueError (ok is FALSE). The arguments hold no blank and no underscore.
ParseInt(s) ==
    LET signed == Len(s) > 0 /\ s[1] \in {"+", "-"}
        ds == IF signed THEN Tail(s) ELSE s
    IN  IF AllDigits(ds)
        THEN [ok |-> TRUE,
              val |-> IF signed /\ s[1] = "-" THEN 0 - DigitsValue(ds) ELSE DigitsValue(ds)]
        ELSE [ok |-> FALSE, val |-> 0]

\* Faulty variant of line 231: n is stored without the clamp.
NoClamp(n) ==
    n

\* Line 231: max(1, n)
ClampInterval(n) ==
    Max(1, n)

\* Each handler as a function of the configuration and the arguments: the
\* configuration it leaves and the reply it sends.
Outcome(cfg, rep) ==
    [config |-> cfg, reply |-> rep]

\* cmd_add
AddResult(cfg, args) ==
    IF args = <<>> THEN Outcome(cfg, Ack("usage_add"))
    ELSE LET acc == NormalizeAcc(args[1])
         IN  IF AlreadyTracked(acc, cfg.twitter_accounts)
             THEN Outcome(cfg, AckAcc("already_tracked", acc))
             ELSE Outcome([cfg EXCEPT !.twitter_accounts = Append(@, acc)],
                          AckAcc("added", acc))

\* cmd_remove
RemoveResult(cfg, args) ==
    IF args = <<>> THEN Outcome(cfg, Ack("usage_remove"))
    ELSE LET acc == NormalizeAcc(args[1])
         IN  IF InList(acc, cfg.twitter_accounts)
             THEN Outcome([cfg EXCEPT !.twitter_accounts = ListRemove(@, acc)],
                          AckAcc("removed", acc))
             ELSE Outcome(cfg, AckAcc("not_found", acc))

\* cmd_list
ListResult(cfg) ==
    IF cfg.twitter_accounts = <<>> THEN Outcome(cfg, Ack("no_accounts"))
    ELSE Outcome(cfg, Reply("list", <<>>, 0, cfg.twitter_accounts, NoStatus))

\* cmd_setchannel
SetChannelResult(cfg, args) ==
    IF args = <<>> THEN Outcome(cfg, Ack("usage_setchannel"))
    ELSE Outcome([cfg EXCEPT !.telegram_channel = args[1]],
                 Reply("channel_set", <<>>, 0, <<>>,
                       [NoStatus EXCEPT !.channel = args[1]]))

\* cmd_setinterval: the reply formats n, not the value stored.
SetIntervalResult(cfg, args) ==
    IF args = <<>> THEN Outcome(cfg, Ack("usage_setinterval"))
    ELSE LET n == ParseInt(args[1])
         IN  IF n.ok
             THEN Outcome([cfg EXCEPT !.interval_minutes = ClampInterval(n.val)],
                          Reply("interval_set", <<>>, n.val, <<>>, NoStatus))
             ELSE Outcome(cfg, Ack("invalid_number"))

\* cmd_pause
PauseResult(cfg) ==
    Outcome([cfg EXCEPT !.paused = TRUE], Ack("paused"))

\* cmd_resume
ResumeResult(cfg) ==
    Outcome([cfg EXCEPT !.paused = FALSE], Ack("resumed"))

\* cmd_status
StatusResult(cfg) ==
    Outcome(cfg, Reply("status", <<>>, 0, <<>>,
                       [count |-> Len(cfg.twitter_accounts),
                        interval |-> cfg.interval_minutes,
                        channel |-> cfg.telegram_channel,
                        paused |-> cfg.paused]))

\* A handler runs to its end without suspending: one step. It leaves
\* out.config in config (and, saved by the handler itself, in config.json)
\* and answers out.reply; nothing else of the state changes.
Handle(out) ==
    /\ CmdPoint
    /\ config' = out.config
    /\ UNCHANGED <<cache, cacheFile, pc, accounts, idx, tweet, delivery, crashes,
                   cyclePaused, prevFetch, lastAttempt>>

CmdStart ==
    Handle(Outcome(config, Ack("hello")))

CmdHelp ==
    Handle(Outcome(config, Ack("help")))

CmdAdd ==
    \E args \in AccountArgLists : Handle(AddResult(config, args))

CmdRemove ==
    \E args \in AccountArgLists : Handle(RemoveResult(config, args))

CmdList ==
    Handle(ListResult(config))

CmdSetChannel ==
    \E args \in ChannelArgLists : Handle(SetChannelResult(config, args))

CmdSetInterval ==
    \E args \in IntervalArgLists : Handle(SetIntervalResult(config, args))

CmdPause ==
    Handle(PauseResult(config))

CmdResume ==
    Handle(ResumeResult(config))

CmdStatus ==
    Handle(StatusResult(config))

\* ------------------------------------------------------ crash and restart
\* load_json(CACHE_FILE, {}) of line 42.
LoadCache(file) ==
    file.doc

\* The process is killed at any point and started again. A kill inside
\* save_json can leave cache.json truncated (open(path, 'w') truncates before
\* json.dump writes); json.load then raises at line 42 and the process does
\* not start. config.json holds config: every handler that changes it saves.
CrashRestart ==
    /\ crashes < MaxCrashes
    /\ pc # "startup_failed"
    /\ crashes' = crashes + 1
    /\ \E f \in (IF pc = "mark" THEN {cacheFile, CorruptFile} ELSE {cacheFile}) :
          /\ cacheFile' = f
          /\ IF f.ok
             THEN /\ cache' = LoadCache(f)
                  /\ pc' = "top"
             ELSE /\ cache' = EmptyCache
                  /\ pc' = "startup_failed"
    /\ accounts' = <<>>
    /\ idx' = 1
    /\ tweet' = NoTweet
    /\ delivery' = NoDelivery
    /\ cyclePaused' = FALSE
    /\ UNCHANGED <<config, prevFetch, lastAttempt>>

\* ---------------------------------------------------------- specifications
Loop ==
    \/ CycleStart
    \/ ForNext
    \/ FetchReturn
    \/ MarkAndSave
    \/ SleepStart
    \/ Wake

Commands ==
    \/ CmdStart
    \/ CmdHelp
    \/ CmdAdd
    \/ CmdRemove
    \/ CmdList
    \/ CmdSetChannel
    \/ CmdSetInterval
    \/ CmdPause
    \/ CmdResume
    \/ CmdStatus

Next ==
    Loop \/ Commands

\* The running process.
Spec ==
    Init /\ [][Next]_vars

NextCrash ==
    Next \/ CrashRestart

\* The process with crashes and restarts.
SpecCrash ==
    Init /\ [][NextCrash]_vars

\* The running process under fair scheduling of the poll loop: the event
\* loop resumes the task when its fetch thread returns and when its sleep
\* is over, so a step the loop can take is eventually taken.
SpecFair ==
    Spec /\ WF_vars(Loop)

\* ------------------------------------------------------------- properties
\* C1 (Idempotence). A fetch that returns triggers a delivery exactly when
\* the id it returned differs from the id the previous fetch of that account
\* returned: the same id fetched again, over any number of cycles, is
\* delivered once and never again; and no delivery is triggered for an id
\* the account's marker already equals.
C1_DeliveredOncePerId ==
    [][ pc = "fetching" /\ pc' \in {"mark", "for"}
        => /\ (pc' = "mark") <=> (prevFetch'[CurAcc] # prevFetch[CurAcc])
           /\ pc' = "mark" => cache[CurAcc] # Str(tweet'.id) ]_vars

\* The post of the account at hand was delivered and marked, and the account
\* is being fetched again.
C1_Witness ==
    /\ pc = "fetching"
    /\ cache[CurAcc] # NoMarker
    /\ prevFetch[CurAcc] = cache[CurAcc]
    /\ lastAttempt[CurAcc] = cache[CurAcc]

\* C2 (Marker-transactionality). When the send for a new post failed, the
\* step that follows it stores that post's id as the account's marker, in
\* the same cycle; and no later fetch triggers a send for the post whose
\* send was the account's last, failed or not.
C2_MarkerAdvancesOnFailedSend ==
    [][ /\ pc = "mark" /\ delivery.failed => cache'[CurAcc] = Str(tweet.id)
        /\ pc = "fetching" /\ pc' = "mark" => Str(tweet'.id) # lastAttempt[CurAcc] ]_vars

\* A send for a new post has failed; line 155 comes next.
C2_Witness ==
    /\ pc = "mark"
    /\ delivery.made
    /\ delivery.failed
    /\ cache[CurAcc] # Str(tweet.id)

\* C3 (Marker invariant). Between the return of the send for post P of an
\* account and line 155 the marker is not yet P (it is never written before
\* the send); everywhere else every account's marker is the id of the last
\* post whose send was called for it (None when none was): the marker is P
\* if and only if a delivery of P was attempted, and it is P before the
\* loop turns to any other account.
C3_MarkerIffAttempted ==
    \A a \in CacheKeys :
        IF pc = "mark" /\ a = CurAcc
        THEN /\ delivery.made
             /\ lastAttempt[a] = Str(tweet.id)
             /\ cache[a] # Str(tweet.id)
        ELSE cache[a] = lastAttempt[a]

\* The first account of the cycle was relayed and marked, and the loop is
\* about to turn to the second.
C3_Witness ==
    /\ pc = "for"
    /\ idx = 2
    /\ Len(accounts) = 2
    /\ cache[accounts[1]] # NoMarker
    /\ cache[accounts[2]] = NoMarker

\* C4 (Restart safety). With crashes and restarts at any point of a cycle:
\* no fetch triggers a send for the post whose send was the account's last
\* (a post delivered before the crash is not delivered again after the
\* restart); and no post is marked without having been sent: a marker
\* changes only to the id of the post just sent or to what the persisted
\* map holds, and a readable persisted map is only ever written from the
\* markers in memory.
C4_RestartSafety ==
    [][ /\ pc = "fetching" /\ pc' = "mark" => Str(tweet'.id) # lastAttempt[CurAcc]
        /\ \A a \in CacheKeys :
              cache'[a] # cache[a]
              => \/ cache'[a] = lastAttempt[a]
                 \/ crashes' # crashes /\ cache'[a] = cacheFile'.doc[a]
        /\ cacheFile' # cacheFile /\ cacheFile'.ok => cacheFile'.doc = cache' ]_vars

\* C5 (Pause semantics). From the moment a cycle finds paused set until the
\* next cycle decides anew, the loop is at its sleep step, asleep, or back at
\* the top of the next cycle: it fetches nothing, sends nothing and leaves
\* the markers as they are, and its sleep step is followed by the sleep.
C5_PausedCycle ==
    [][ cyclePaused'
        => /\ pc' \in {"sleep", "sleeping", "top"}
           /\ cache' = cache
           /\ cacheFile' = cacheFile
           /\ prevFetch' = prevFetch
           /\ lastAttempt' = lastAttempt ]_vars

\* C6 (Per-account failure isolation). The for loop of a cycle is left for
\* the sleep step only when no account remains after the one at hand: an
\* exception while one account is processed does not keep the loop from the
\* accounts after it.
C6_RemainingAccountsProcessed ==
    [][ pc' = "sleep" /\ pc \in {"for", "mark"}
        => idx >= Len(accounts) ]_vars

\* C7 (Loop liveness). The poll loop never ends: whatever the configuration
\* holds, its sleep step is followed by the sleep and the next cycle.
C7_LoopNeverEnds ==
    pc # "dead"

NoDuplicates(lst) ==
    \A i, j \in 1..Len(lst) : lst[i] = lst[j] => i = j

\* The account names without the leading "@".
BareNames ==
    {a \in AccountArgs : ~StartsWithAt(a)}

\* C8 (Duplicate rejection). After any sequence of commands from the empty
\* watch-list, the watch-list holds no account twice; and /add of a name
\* whose stored form the list holds leaves the configuration as it is.
C8_NoDuplicateAccounts ==
    /\ NoDuplicates(config.twitter_accounts)
    /\ \A arg \in AccountArgs :
          InList(NormalizeAcc(arg), config.twitter_accounts)
          => AddResult(config, <<arg>>).config = config

\* Both accounts are on the watch-list: every further /add names a tracked
\* account.
C8_Witness ==
    /\ Len(config.twitter_accounts) = 2
    /\ \A arg \in AccountArgs : InList(NormalizeAcc(arg), config.twitter_accounts)

\* C9 (Account normalization). For every name x without a leading "@", in
\* every configuration the handlers can produce: /add x and /add @x leave the
\* same configuration and the same reply; either one after the other is a
\* no-op answered "already tracked"; and /remove x takes what /add @x put on
\* the list, as /remove @x takes what /add x put.
C9_AtSignOptional ==
    \A x \in BareNames :
        LET at == <<"@">> \o x
            addX == AddResult(config, <<x>>)
            addAt == AddResult(config, <<at>>)
            again(first, arg) == AddResult(first.config, <<arg>>)
            removed(first, arg) == RemoveResult(first.config, <<arg>>)
        IN  /\ addX = addAt
            /\ again(addX, at) = Outcome(addX.config, AckAcc("already_tracked", at))
            /\ again(addAt, x) = Outcome(addAt.config, AckAcc("already_tracked", at))
            /\ removed(addAt, x).reply = AckAcc("removed", at)
            /\ ~InList(at, removed(addAt, x).config.twitter_accounts)
            /\ removed(addX, at).reply = AckAcc("removed", at)
            /\ ~InList(at, removed(addX, at).config.twitter_accounts)
            /\ removed(addX, at) = removed(addAt, x)

\* One account is on the watch-list (so /add of either spelling is the
\* no-op) and the other is not (so /add of either spelling appends).
C9_Witness ==
    \E x, y \in BareNames :
        /\ config.twitter_accounts = <<NormalizeAcc(x)>>
        /\ ~InList(NormalizeAcc(y), config.twitter_accounts)

\* The /setinterval arguments int() rejects, and those below 1.
NonIntegerArgs ==
    {<<"a", "b", "c">>, <<"1", ".", "5">>}

BelowOneArgs ==
    {<<"0">>, <<"-", "2">>}

\* C10 (setInterval validation). In every configuration the handlers can
\* produce: /setinterval with a non-integer argument leaves the
\* configuration as it is and answers with the error; with an integer below
\* 1 it stores 1 and answers as for a stored value; and the stored interval
\* is at least 1.
C10_IntervalAtLeastOne ==
    /\ config.interval_minutes >= 1
    /\ \A arg \in NonIntegerArgs :
          SetIntervalResult(config, <<arg>>) = Outcome(config, Ack("invalid_number"))
    /\ \A arg \in BelowOneArgs :
          LET out == SetIntervalResult(config, <<arg>>)
          IN  /\ out.config = [config EXCEPT !.interval_minutes = 1]
              /\ out.reply.kind = "interval_set"

\* An interval below 1 was asked for and 1 was stored (the default is 3).
C10_Witness ==
    config.interval_minutes = 1

\* The fields of the configuration.
ConfigFields ==
    {"twitter_accounts", "interval_minutes", "telegram_channel", "paused"}

\* c2 differs from c1 in no field outside fields.
SameOutside(c1, c2, fields) ==
    \A f \in ConfigFields \ fields : c2[f] = c1[f]

\* C11 (Command frame). In every configuration the program can reach, each
\* handler leaves every field but its own as it is (/add and /remove: the
\* watch-list, /setchannel: the channel, /setinterval: the interval, /pause
\* and /resume: paused, /list and /status: none); a command without its
\* argument, /setinterval with a non-integer and /remove of an untracked
\* account leave the whole configuration as it is; and no step that changes
\* the configuration changes the markers, in memory or on disk.
C11_CommandFrame ==
    [][ /\ config' # config => cache' = cache /\ cacheFile' = cacheFile
        /\ \A args \in AccountArgLists :
              /\ SameOutside(config, AddResult(config, args).config, {"twitter_accounts"})
              /\ SameOutside(config, RemoveResult(config, args).config, {"twitter_accounts"})
              /\ args = <<>> => /\ AddResult(config, args).config = config
                               /\ RemoveResult(config, args).config = config
              /\ args # <<>> /\ ~InList(NormalizeAcc(args[1]), config.twitter_accounts)
                 => RemoveResult(config, args) = Outcome(config, AckAcc("not_found", NormalizeAcc(args[1])))
        /\ \A args \in ChannelArgLists :
              /\ SameOutside(config, SetChannelResult(config, args).config, {"telegram_channel"})
              /\ args = <<>> => SetChannelResult(config, args).config = config
        /\ \A args \in IntervalArgLists :
              /\ SameOutside(config, SetIntervalResult(config, args).config, {"interval_minutes"})
              /\ args = <<>> \/ args[1] \in NonIntegerArgs
                 => SetIntervalResult(config, args).config = config
        /\ SameOutside(config, PauseResult(config).config, {"paused"})
        /\ SameOutside(config, ResumeResult(config).config, {"paused"})
        /\ ListResult(config).config = config
        /\ StatusResult(config).config = config ]_vars

\* Markers are stored, and commands have since changed three fields of the
\* configuration.
C11_Witness ==
    /\ \E a \in AccountIds : cache[a] # NoMarker /\ cacheFile.doc[a] # NoMarker
    /\ config.paused
    /\ config.interval_minutes # DefaultInterval
    /\ Len(config.twitter_accounts) = 2

\* C12 (Unset channel). When the fetch returns while the channel is unset,
\* the loop goes on to line 155 or to the next account, never to the except
\* of line 157 and never out of the loop; and none of the bot calls made for
\* a new post names a channel (their chat_id is None).
C12_UnsetChannelSendsNothing ==
    [][ pc = "fetching" /\ pc' # "fetching" /\ config.telegram_channel = NoChannel
        => /\ pc' \in {"mark", "for"}
           /\ \A i \in 1..Len(delivery'.calls) : delivery'.calls[i].chat = NoChannel ]_vars

\* A new post was processed while the channel was unset, and bot calls were
\* made for it.
C12_Witness ==
    /\ pc = "mark"
    /\ config.telegram_channel = NoChannel
    /\ delivery.made
    /\ delivery.calls # <<>>

\* Normalized media items send_media can be handed, and the lists of them.
MediaItems ==
    { [type |-> t, url |-> u] : t \in {"photo", "video"}, u \in {UrlFull, UrlStream} }

\* Bound: the media lists send_media is tried on hold at most MaxMedia items.
MaxMedia ==
    3

MediaLists ==
    UNION { [1..n -> MediaItems] : n \in 0..MaxMedia }

RECURSIVE UrlsOfType(_, _)
\* The URLs of the items of type t, in source order.
UrlsOfType(ms, t) ==
    IF ms = <<>> THEN <<>>
    ELSE IF Head(ms).type = t THEN <<Head(ms).url>> \o UrlsOfType(Tail(ms), t)
    ELSE UrlsOfType(Tail(ms), t)

\* calls follow the grouping rule for media: with photos, the first call is
\* the photo send (a group of all photos, caption on the first item only,
\* when there are two or more; one captioned photo otherwise), and the
\* calls after it are one uncaptioned send per video, in source order.
Grouped(media, caption, channel, calls) ==
    LET P == UrlsOfType(media, "photo")
        V == UrlsOfType(media, "video")
    IN  Len(P) >= 1
        => /\ Len(calls) = 1 + Len(V)
           /\ calls[1].chat = channel
           /\ calls[1].urls = P
           /\ IF Len(P) >= 2
              THEN /\ calls[1].op = "send_media_group"
                   /\ calls[1].captions = <<caption>> \o [i \in 1..(Len(P) - 1) |-> <<>>]
              ELSE /\ calls[1].op = "send_photo"
                   /\ calls[1].captions = <<caption>>
           /\ \A j \in 1..Len(V) :
                 calls[1 + j] = [op |-> "send_video", chat |-> channel,
                                 urls |-> <<V[j]>>, captions |-> <<>>]

\* C13 (Grouping rule). For every media list of up to MaxMedia items with
\* at least one photo, the bot calls of send_media follow the grouping rule
\* (a property of send_media alone, evaluated for the channel each cycle
\* starts with); and so do the calls the loop has made for a new post with
\* photos when none of them raised.
C13_GroupingRule ==
    /\ pc = "top"
       => \A media \in MediaLists :
             Grouped(media, <<"c">>, config.telegram_channel,
                     SendMediaPlan(config.telegram_channel, media, <<"c">>))
    /\ pc = "mark" /\ ~delivery.failed
       => Grouped(ExtractMedia(tweet), Caption(CurAcc, Strip(tweet.content)),
                  config.telegram_channel, delivery.calls)

\* The loop has sent a post with two photos and a video: one group, then
\* the video.
C13_Witness ==
    /\ pc = "mark"
    /\ ~delivery.failed
    /\ Len(delivery.calls) = 2
    /\ delivery.calls[1].op = "send_media_group"
    /\ Len(delivery.calls[1].urls) = 2
    /\ delivery.calls[2].op = "send_video"

\* A media object whose three URL fields are present and empty.
EmptyUrls ==
    [cls |-> ClsPhoto, fullUrl |-> Field(<<>>), previewUrl |-> Field(<<>>),
     url |-> Field(<<>>), type |-> ""]

\* Media objects a tweet can carry, and the lists of them.
RawItems ==
    {PhotoBoth, PhotoPreviewOnly, ClipByExtension, VideoNoUrl, VideoTagged, EmptyUrls}

\* Bound: the media lists the normalizer is tried on hold at most MaxRaw objects.
MaxRaw ==
    2

RawLists ==
    UNION { [1..n -> RawItems] : n \in 0..MaxRaw }

\* Some URL field of m is populated.
HasUrl(m) ==
    \/ m.fullUrl.has /\ m.fullUrl.val # <<>>
    \/ m.previewUrl.has /\ m.previewUrl.val # <<>>
    \/ m.url.has /\ m.url.val # <<>>

\* The URLs populated in m.
UrlsIn(m) ==
    {f.val : f \in {g \in {m.fullUrl, m.previewUrl, m.url} : g.has /\ g.val # <<>>}}

\* C14 (Fallback correctness). For every list of up to MaxRaw media
\* objects the normalizer returns one item per object with a populated URL
\* field, in source order, each with a URL of its object, and nothing for
\* the objects without one; and a new post that has attachments, none with
\* a populated URL, is delivered by at most one bot call, which is a plain
\* text message whose body is the caption, and by exactly that call when it
\* does not raise.
C14_FallbackToText ==
    /\ pc = "top"
       => \A ms \in RawLists :
             LET kept == SelectSeq(ms, HasUrl)
                 out == ExtractFrom(ms)
             IN  /\ Len(out) = Len(kept)
                 /\ \A i \in 1..Len(kept) : out[i].url \in UrlsIn(kept[i])
    /\ pc = "mark" /\ tweet.media # <<>> /\ (\A i \in 1..Len(tweet.media) : ~HasUrl(tweet.media[i]))
       => LET text == [op |-> "send_message", chat |-> config.telegram_channel,
                       urls |-> <<>>,
                       captions |-> <<Caption(CurAcc, Strip(tweet.content))>>]
          IN  delivery.calls = IF delivery.failed THEN <<>> ELSE <<text>>

\* A post whose only attachment has no URL was delivered as one text
\* message.
C14_Witness ==
    /\ pc = "mark"
    /\ tweet.media # <<>>
    /\ \A i \in 1..Len(tweet.media) : ~HasUrl(tweet.media[i])
    /\ ~delivery.failed
    /\ Len(delivery.calls) = 1
    /\ delivery.calls[1].op = "send_message"

\* The accounts whose last attempted post has no marker in cache.json.
Unpersisted ==
    {a \in CacheKeys : lastAttempt[a] # NoMarker
                       /\ ~(cacheFile.ok /\ cacheFile.doc[a] = lastAttempt[a])}

\* C15 (Persist-before-next-account). At every point at most one post has
\* had its delivery attempted without its marker being in the persisted
\* map, and while a fetch is in flight there is none: the marker of every
\* post sent before was persisted before the fetch started.
C15_PersistBeforeNextFetch ==
    /\ Cardinality(Unpersisted) <= 1
    /\ pc = "fetching" => Unpersisted = {}

\* lst without duplicates, in first-seen order, characterized: out holds
\* every element of lst once, ordered by first occurrence in lst.
FirstIndex(x, lst) ==
    CHOOSE i \in 1..Len(lst) : lst[i] = x /\ \A j \in 1..(i - 1) : lst[j] # x

IsDedupOf(out, lst) ==
    /\ NoDuplicates(out)
    /\ \A i \in 1..Len(lst) : InList(lst[i], out)
    /\ \A i \in 1..Len(out) : InList(out[i], lst)
    /\ \A i, j \in 1..Len(out) :
          i < j => FirstIndex(out[i], lst) < FirstIndex(out[j], lst)

\* The loop is inside the for loop of a cycle.
InCycle ==
    pc \in {"for", "fetching", "mark"}

\* C16 (Fresh watch-list per cycle). A cycle that starts unpaused takes the
\* watch-list of that moment, deduplicated in first-seen order, keeps it
\* whatever the commands do meanwhile, and leaves its for loop only when
\* every account of it has been fetched: so an account on the list when a
\* cycle starts (added during the cycle before) is fetched in that cycle,
\* and one not on it is not.
C16_FreshListEachCycle ==
    [][ /\ pc = "top" /\ pc' = "for" => IsDedupOf(accounts', config.twitter_accounts)
        /\ InCycle /\ InCycle' => accounts' = accounts
        /\ pc' = "fetching" => InList(accounts'[idx'], accounts')
        /\ pc = "for" /\ pc' = "sleep" => idx > Len(accounts)
        /\ pc = "mark" /\ pc' = "sleep" => idx = Len(accounts) ]_vars

\* The cycle at hand started unpaused, and since then a command has set
\* paused or removed an account the cycle has not finished with.
CommandDuringCycle ==
    /\ InCycle
    /\ \/ config.paused
       \/ \E i \in idx..Len(accounts) : ~InList(accounts[i], config.twitter_accounts)

\* C17 (Cycle snapshot under concurrent commands). After /pause or /remove
\* was handled during a cycle, the cycle goes on as it would have: it
\* fetches the next account of its snapshot while one remains, a fetch that
\* returns is followed by the send and line 155 or by the next account, the
\* send is followed by the marker, and the for loop is left only when no
\* account of the snapshot remains.
C17_CycleKeepsSnapshot ==
    [][ CommandDuringCycle /\ pc' # pc
        => /\ accounts' = accounts \/ pc' = "sleep"
           /\ pc = "for" => IF idx <= Len(accounts) THEN pc' = "fetching" ELSE pc' = "sleep"
           /\ pc = "fetching" => pc' \in {"mark", "for"}
           /\ pc = "mark" => /\ cache'[CurAcc] = Str(tweet.id)
                             /\ pc' = "for" \/ idx = Len(accounts) ]_vars

\* C18 (Marker advances while the channel is unset). The step after the
\* send of a new post made while the channel is unset stores that post's id
\* as the account's marker; and a fetch that returns the post whose id is
\* the account's marker triggers no send, whatever the channel is by then:
\* the post is not delivered after /setchannel while it stays the latest.
C18_MarkedWhileChannelUnset ==
    [][ /\ pc = "mark" /\ config.telegram_channel = NoChannel
           => cache'[CurAcc] = Str(tweet.id)
        /\ pc = "fetching" /\ pc' # "fetching" /\ prevFetch'[CurAcc] = cache[CurAcc]
           => pc' = "for" /\ lastAttempt' = lastAttempt ]_vars

\* A new post was processed while the channel was unset: its send is over
\* and every call made carried chat_id None.
C18_Witness ==
    /\ pc = "mark"
    /\ config.telegram_channel = NoChannel
    /\ delivery.made
    /\ \A i \in 1..Len(delivery.calls) : delivery.calls[i].chat = NoChannel
    /\ cache[CurAcc] = NoMarker

\* media holds at least one video and no photo.
VideoOnly(media) ==
    UrlsOfType(media, "video") # <<>> /\ UrlsOfType(media, "photo") = <<>>

\* calls are uncaptioned video sends of the videos of media, in order.
OnlyBareVideos(media, channel, calls) ==
    LET V == UrlsOfType(media, "video")
    IN  /\ Len(calls) <= Len(V)
        /\ \A j \in 1..Len(calls) :
              calls[j] = [op |-> "send_video", chat |-> channel,
                          urls |-> <<V[j]>>, captions |-> <<>>]

\* C19 (Caption loss for video-only posts). For every media list of up to
\* MaxMedia items with a video and no photo, send_media makes one uncaptioned
\* video send per video and no other call; for a new post with such media
\* the calls the loop made are uncaptioned video sends only, so no call
\* carries the caption, and the step after them stores the post's id as the
\* account's marker.
C19_VideoOnlyLosesCaption ==
    [][ /\ pc = "top"
           => \A media \in {m \in MediaLists : VideoOnly(m)} :
                 LET calls == SendMediaPlan(config.telegram_channel, media, <<"c">>)
                 IN  /\ OnlyBareVideos(media, config.telegram_channel, calls)
                     /\ Len(calls) = Len(media)
        /\ pc = "mark" /\ VideoOnly(ExtractMedia(tweet))
           => /\ OnlyBareVideos(ExtractMedia(tweet), config.telegram_channel, delivery.calls)
              /\ delivery.failed \/ Len(delivery.calls) = Len(ExtractMedia(tweet))
              /\ cache'[CurAcc] = Str(tweet.id) ]_vars

\* A post with text and one video was sent as one uncaptioned video.
C19_Witness ==
    /\ pc = "mark"
    /\ Strip(tweet.content) # <<>>
    /\ VideoOnly(ExtractMedia(tweet))
    /\ ~delivery.failed
    /\ Len(delivery.calls) = 1
    /\ delivery.calls[1].op = "send_video"
    /\ delivery.calls[1].captions = <<>>

\* An exception ends the cycle before its last account is done, or ends the
\* loop at line 159.
AbortStep ==
    \/ pc = "for" /\ pc' = "sleep" /\ idx <= Len(accounts)
    \/ pc = "mark" /\ pc' = "sleep"
    \/ pc' = "dead"

\* A fetch of account a that returns a tweet returns post p.
FetchReturns(a, p) ==
    pc = "fetching" /\ pc' # "fetching" /\ CurAcc = a => prevFetch'[a] = Str(p)

\* C20 (Eventual delivery). Under fair scheduling of the poll loop, for
\* every account a and post p: if from some point on paused stays false, a
\* stays on the watch-list, no exception aborts a cycle or ends the loop,
\* and the fetches of a return p, then from some point on a's marker is p's
\* id and p is the post whose send was a's last (outside the step between
\* the send and line 155). An account just added, without a marker, is the
\* case where the marker is None before.
C20_EventualDelivery ==
    \A a \in AccountIds : \A p \in PostIds :
        ( /\ <>[]~config.paused
          /\ <>[]InList(a, config.twitter_accounts)
          /\ [](pc # "dead")
          /\ <>[][~AbortStep]_vars
          /\ <>[][FetchReturns(a, p)]_vars )
        => <>[](pc # "mark" => cache[a] = Str(p) /\ lastAttempt[a] = Str(p))

\* The first fetch of a watched account returned a post, which was sent and
\* marked; the loop is unpaused and the other account has no marker yet.
C20_Witness ==
    /\ ~config.paused
    /\ pc = "for"
    /\ idx = 2
    /\ Len(accounts) = 2
    /\ InList(accounts[1], config.twitter_accounts)
    /\ prevFetch[accounts[1]] # NoMarker
    /\ cache[accounts[1]] = prevFetch[accounts[1]]
    /\ lastAttempt[accounts[1]] = prevFetch[accounts[1]]
    /\ cacheFile.ok
    /\ cacheFile.doc[accounts[1]] = cache[accounts[1]]

====
